---- MODULE Spec2Model ----
(***************************************************************************)
(* Hashtag analysis pipeline: collect -> clean -> sentiment -> keywords -> *)
(* index, with the Streamlit session that drives it.                       *)
(*                                                                         *)
(* Text is a sequence of one-character tokens.  The module language is     *)
(* ASCII only, so the non-ASCII characters the cleaner treats specially    *)
(* are written as named tokens: "HANGUL" (a syllable of the range 가-힣),   *)
(* "KIYEOK" (the jamo ㅋ), "HIEUH" (the jamo ㅎ) and "EMOJI" (an emoji      *)
(* glyph).  A post record is a function from field names to values.        *)
(* Scores are integer percentages (0.6 is 60, 0.0 is 0).                   *)
(***************************************************************************)
EXTENDS Integers, Sequences, FiniteSets, TLC

(***************************************************************************)
(* Bounds of the model.                                                    *)
(***************************************************************************)
MaxPosts  == 2    \* items the scraping service yields in one run
MaxRuns   == 1    \* presses of the analysis button in one session
MaxFaults == 1    \* environment failures injected in one session
MaxLen    == 2    \* records handed to a single stage call (StageSpec)
MaxBatch  == 2    \* largest batch_size tried (StageSpec)
MaxText   == 5    \* characters of a caption handed to clean_caption (CleanSpec)
MaxCount  == 2    \* largest max_count asked of a collector (CollectSpec)
MaxItems  == 3    \* items the service yields to one collector call (CollectSpec)
MaxQuestions == 2 \* questions sent in one chat session (ChatSpec)
MaxRetries == 3   \* largest max_retries of a scraper (ScraperSpec)

(***************************************************************************)
(* Character classes of Python's re module on str.                         *)
(***************************************************************************)
Digits  == {"0", "1", "2", "3", "4", "5", "6", "7", "8", "9"}
Letters == {"a", "b", "c", "d", "e", "g", "h", "k", "m", "n", "o", "p",
            "r", "s", "t", "w", "x", "y", "_"}
Korean  == {"HANGUL", "KIYEOK", "HIEUH"}
Spaces  == {" ", "\n"}

IsSpace(c) == c \in Spaces                               \* \s
IsWord(c)  == c \in Digits \cup Letters \cup Korean      \* \w

\* values that are not a str: Python's None, and a number
None   == <<"<None>">>
Number == <<"<number>">>

IsStr(v) == v \notin {None, Number}                      \* isinstance(v, str)

\* last index of the maximal run of non-space characters that holds index i
RECURSIVE RunEnd(_, _)
RunEnd(t, i) ==
    IF i < Len(t) /\ ~IsSpace(t[i + 1]) THEN RunEnd(t, i + 1) ELSE i

\* the literal lit stands in t at index i
MatchAt(t, i, lit) ==
    /\ i + Len(lit) - 1 <= Len(t)
    /\ \A k \in 1..Len(lit) : t[i + k - 1] = lit[k]

\* re.sub(mark + r"\S+", "", t) from index i on
RECURSIVE SubTagFrom(_, _, _)
SubTagFrom(t, mark, i) ==
    IF i > Len(t) THEN <<>>
    ELSE IF t[i] = mark /\ i < Len(t) /\ ~IsSpace(t[i + 1])
         THEN SubTagFrom(t, mark, RunEnd(t, i + 1) + 1)
         ELSE <<t[i]>> \o SubTagFrom(t, mark, i + 1)

SubTag(t, mark) == SubTagFrom(t, mark, 1)

UrlPrefixes ==
    { <<"h", "t", "t", "p", ":", "/", "/">>,
      <<"h", "t", "t", "p", "s", ":", "/", "/">>,
      <<"w", "w", "w", ".">> }

\* http[s]?://\S+|www\.\S+ matches at index i
UrlAt(t, i) ==
    \E p \in UrlPrefixes :
        /\ MatchAt(t, i, p)
        /\ i + Len(p) <= Len(t)
        /\ ~IsSpace(t[i + Len(p)])

\* re.sub(r"http[s]?://\S+|www\.\S+", "", t) from index i on
RECURSIVE SubUrlFrom(_, _)
SubUrlFrom(t, i) ==
    IF i > Len(t) THEN <<>>
    ELSE IF UrlAt(t, i) THEN SubUrlFrom(t, RunEnd(t, i) + 1)
         ELSE <<t[i]>> \o SubUrlFrom(t, i + 1)

SubUrl(t) == SubUrlFrom(t, 1)

Tlds ==
    { <<"c", "o", "m">>, <<"k", "r">>, <<"n", "e", "t">>, <<"o", "r", "g">>,
      <<"c", "o", ".", "k", "r">> }

\* \S+\.(com|kr|net|org|co\.kr)\S* matches starting at index s: \S+ needs one
\* character before the dot, \S* then runs to the end of the token
DomainAt(t, s) ==
    /\ ~IsSpace(t[s])
    /\ \E j \in (s + 1)..RunEnd(t, s) :
          /\ t[j] = "."
          /\ \E d \in Tlds : MatchAt(t, j + 1, d)

\* re.sub(r"\S+\.(com|kr|net|org|co\.kr)\S*", "", t) from index i on
RECURSIVE SubDomainFrom(_, _)
SubDomainFrom(t, i) ==
    IF i > Len(t) THEN <<>>
    ELSE IF DomainAt(t, i) THEN SubDomainFrom(t, RunEnd(t, i) + 1)
         ELSE <<t[i]>> \o SubDomainFrom(t, i + 1)

SubDomain(t) == SubDomainFrom(t, 1)

\* emoji.replace_emoji(t, replace='')
ReplaceEmoji(t) == SelectSeq(t, LAMBDA c : c # "EMOJI")

Punct == {".", ",", "!", "?", "~", "-"}

\* re.sub(r"[^\w\s가-힣ㄱ-ㅎㅏ-ㅣ.,!?~\-]", "", t)
KeepWhitelisted(t) ==
    SelectSeq(t, LAMBDA c : IsWord(c) \/ IsSpace(c) \/ c \in Punct)

Repeatable == {"KIYEOK", "HIEUH", "!", "?", "~", "."}

\* length of the run of copies of t[i] that starts at index i
RECURSIVE SameRun(_, _)
SameRun(t, i) ==
    IF i < Len(t) /\ t[i + 1] = t[i] THEN 1 + SameRun(t, i + 1) ELSE 1

\* re.sub(r"([ㅋㅎ!?~.])\1{2,}", r"\1\1", t) from index i on
RECURSIVE CollapseRepeatsFrom(_, _)
CollapseRepeatsFrom(t, i) ==
    IF i > Len(t) THEN <<>>
    ELSE IF t[i] \in Repeatable /\ SameRun(t, i) >= 3
         THEN <<t[i], t[i]>> \o CollapseRepeatsFrom(t, i + SameRun(t, i))
         ELSE <<t[i]>> \o CollapseRepeatsFrom(t, i + 1)

CollapseRepeats(t) == CollapseRepeatsFrom(t, 1)

\* re.sub(r"\s+", " ", t) from index i on
RECURSIVE CollapseSpacesFrom(_, _)
CollapseSpacesFrom(t, i) ==
    IF i > Len(t) THEN <<>>
    ELSE IF IsSpace(t[i])
         THEN IF i > 1 /\ IsSpace(t[i - 1])
              THEN CollapseSpacesFrom(t, i + 1)
              ELSE <<" ">> \o CollapseSpacesFrom(t, i + 1)
         ELSE <<t[i]>> \o CollapseSpacesFrom(t, i + 1)

CollapseSpaces(t) == CollapseSpacesFrom(t, 1)

\* str.strip()
RECURSIVE Strip(_)
Strip(t) ==
    IF t = <<>> THEN <<>>
    ELSE IF IsSpace(t[1]) THEN Strip(Tail(t))
    ELSE IF IsSpace(t[Len(t)]) THEN Strip(SubSeq(t, 1, Len(t) - 1))
    ELSE t

\* str.isdigit()
IsDigit(t) == t # <<>> /\ \A k \in 1..Len(t) : t[k] \in Digits

\* steps 1 to 8 of clean_caption
CleanSteps(t) ==
    Strip(CollapseSpaces(CollapseRepeats(KeepWhitelisted(ReplaceEmoji(
        SubDomain(SubUrl(SubTag(SubTag(t, "#"), "@"))))))))

\* mutant: step 10, the check for digits only, is left out
CleanKeepsDigits(text) ==
    IF ~IsStr(text) \/ text = <<>> THEN <<>>
    ELSE LET t == CleanSteps(text)
         IN  IF Len(t) < 3 THEN <<>> ELSE t

\* clean_caption, lines 10-59
clean_caption(text) ==
    IF ~IsStr(text) \/ text = <<>> THEN <<>>
    ELSE LET t == CleanSteps(text)
         IN  IF Len(t) < 3 THEN <<>>
             ELSE IF IsDigit(t) THEN <<>>
             ELSE t

(***************************************************************************)
(* Post records: Python dicts as functions from field names to values.     *)
(***************************************************************************)
Get(r, f, d) == IF f \in DOMAIN r THEN r[f] ELSE d            \* r.get(f, d)

Put(r, f, v) ==                                               \* r[f] = v
    [x \in DOMAIN r \cup {f} |-> IF x = f THEN v ELSE r[x]]

Pop(r, f) == [x \in DOMAIN r \ {f} |-> r[x]]                  \* r.pop(f, None)

\* {**a, **b}: the fields of b win
Merge(a, b) ==
    [x \in DOMAIN a \cup DOMAIN b |-> IF x \in DOMAIN b THEN b[x] ELSE a[x]]

(***************************************************************************)
(* Normalizer stage.                                                       *)
(***************************************************************************)
\* mutant: the cleaned text is written over the caption as well
CleanCaptionsInPlace(posts) ==
    IF posts = <<>> THEN <<>>
    ELSE [i \in DOMAIN posts |->
            LET cleaned == clean_caption(Get(posts[i], "caption", <<>>))
            IN  Put(Put(posts[i], "cleaned_caption", cleaned),
                    "caption", cleaned)]

\* clean_captions, lines 67-104
clean_captions(posts) ==
    IF posts = <<>> THEN <<>>
    ELSE [i \in DOMAIN posts |->
            Put(posts[i], "cleaned_caption",
                clean_caption(Get(posts[i], "caption", <<>>)))]

(***************************************************************************)
(* Sentiment stage.  The labels are the code's Korean strings in English:  *)
(* "negative" is the code's 부정, "positive" 긍정, "neutral" 중립,             *)
(* "unprocessable" 처리불가, "error" 오류, "unknown" 알 수 없음.                *)
(*                                                                         *)
(* The underlying model is an oracle: for each record of the call it       *)
(* either raises or returns a list of class scores.  A call of the         *)
(* transformers pipeline on a list of texts raises when any text of the    *)
(* list makes it raise.                                                    *)
(***************************************************************************)
neutral_threshold == 60

label_mapping ==
    [LABEL_0 |-> "negative", LABEL_1 |-> "positive",
     NEGATIVE |-> "negative", POSITIVE |-> "positive"]

\* max(scores, key=lambda x: x['score']): the first element of maximal score
MaxByScore(scores) ==
    scores[CHOOSE i \in 1..Len(scores) :
              /\ \A j \in 1..Len(scores) : scores[j].score <= scores[i].score
              /\ \A j \in 1..(i - 1) : scores[j].score < scores[i].score]

\* mutant: a best score equal to the threshold counts as neutral too
ClassifyNeutralAtThreshold(scores) ==
    IF scores = <<>> THEN [sentiment |-> "unknown", score |-> 0]
    ELSE LET best == MaxByScore(scores)
         IN  IF best.score <= neutral_threshold
             THEN [sentiment |-> "neutral", score |-> best.score]
             ELSE [sentiment |-> Get(label_mapping, best.label, "unknown"),
                   score |-> best.score]

\* SentimentAnalyzer.classify_sentiment, lines 158-177
classify_sentiment(scores) ==
    IF scores = <<>> THEN [sentiment |-> "unknown", score |-> 0]
    ELSE LET best == MaxByScore(scores)
         IN  IF best.score < neutral_threshold
             THEN [sentiment |-> "neutral", score |-> best.score]
             ELSE [sentiment |-> Get(label_mapping, best.label, "unknown"),
                   score |-> best.score]

\* analyze_batch on the records at the positions idxs (a sequence of 0-based
\* positions), with the pipeline loaded
analyze_batch(idxs, oracle) ==
    IF \E k \in 1..Len(idxs) : oracle[idxs[k] + 1].raises
    THEN [k \in 1..Len(idxs) |-> [sentiment |-> "error", score |-> 0]]
    ELSE [k \in 1..Len(idxs) |-> classify_sentiment(oracle[idxs[k] + 1].scores)]

\* `not caption or caption.strip() == ""`
IsBlank(caption) == caption = <<>> \/ Strip(caption) = <<>>

\* the 0-based positions, in order, of the records a loop's condition
\* selects; selected[i] is the condition on the i-th record
PositionsWhere(selected) ==
    SelectSeq([i \in 1..Len(selected) |-> i - 1], LAMBDA i : selected[i + 1])

\* the loop `for i in range(0, len(valid_texts), self.batch_size)` from the
\* offset k on: the records appended to processed_posts
RECURSIVE BatchLoop(_, _, _, _, _)
BatchLoop(posts, valid, k, batch_size, oracle) ==
    IF k >= Len(valid) THEN <<>>
    ELSE LET hi      == IF k + batch_size < Len(valid)
                        THEN k + batch_size ELSE Len(valid)
             batch   == SubSeq(valid, k + 1, hi)
             results == analyze_batch(batch, oracle)
         IN  [j \in 1..Len(batch) |->
                 Put(Put(Put(posts[batch[j] + 1], "index", batch[j]),
                         "sentiment", results[j].sentiment),
                     "score", results[j].score)]
             \o BatchLoop(posts, valid, k + batch_size, batch_size, oracle)

\* list.sort(key=lambda x: x['index']): a stable sort, by insertion
RECURSIVE InsertByIndex(_, _)
InsertByIndex(sorted, r) ==
    IF sorted = <<>> THEN <<r>>
    ELSE IF sorted[Len(sorted)]["index"] <= r["index"]
         THEN Append(sorted, r)
         ELSE Append(InsertByIndex(SubSeq(sorted, 1, Len(sorted) - 1), r),
                     sorted[Len(sorted)])

RECURSIVE SortByIndexFrom(_, _, _)
SortByIndexFrom(s, n, acc) ==
    IF n > Len(s) THEN acc
    ELSE SortByIndexFrom(s, n + 1, InsertByIndex(acc, s[n]))

\* mutant: the results are returned in the order they were produced
SortByIndexOmitted(s) == s

SortByIndex(s) == SortByIndexFrom(s, 1, <<>>)

\* the default result when no pipeline is loaded: the post's own fields win
Unprocessable(post) ==
    Merge([sentiment |-> "unprocessable", score |-> 0], post)

\* SentimentAnalyzer.analyze_sentiment; loaded is `self.pipeline` being set
analyze_sentiment(posts, loaded, batch_size, oracle) ==
    IF ~loaded THEN [i \in DOMAIN posts |-> Unprocessable(posts[i])]
    ELSE LET cap(post) == Get(post, "cleaned_caption", <<>>)
             blank == PositionsWhere([i \in DOMAIN posts |-> IsBlank(cap(posts[i]))])
             valid == PositionsWhere([i \in DOMAIN posts |-> ~IsBlank(cap(posts[i]))])
             processed_posts ==
                 [j \in 1..Len(blank) |->
                     Put(Put(Put(posts[blank[j] + 1],
                                 "sentiment", "unprocessable"),
                             "score", 0),
                         "index", blank[j])]
                 \o BatchLoop(posts, valid, 0, batch_size, oracle)
             sorted == SortByIndex(processed_posts)
         IN  [i \in DOMAIN sorted |-> Pop(sorted[i], "index")]

(***************************************************************************)
(* Keyword stage.  The KeyBERT model is an oracle: for each record it      *)
(* either raises or returns a ranked list of phrases.                      *)
(***************************************************************************)
MinKeywordTextLen == 10

extract_keywords(posts, loaded, oracle) ==
    IF ~loaded THEN posts
    ELSE [i \in DOMAIN posts |->
            LET text == Get(posts[i], "cleaned_caption",
                            Get(posts[i], "caption", <<>>))
            IN  IF ~IsStr(text) THEN Put(posts[i], "keywords", <<>>)
                ELSE IF text = <<>> \/ Len(Strip(text)) < MinKeywordTextLen
                     THEN Put(posts[i], "keywords", <<>>)
                ELSE IF oracle[i].raises
                     THEN Put(posts[i], "keywords", <<>>)
                ELSE Put(posts[i], "keywords", oracle[i].phrases)]

\* the positions (from 1) of the records extract_keywords hands to
\* model.extract_keywords, lines 55-63
KeywordModelCalls(posts, loaded, oracle) ==
    IF ~loaded THEN {}
    ELSE { i \in DOMAIN posts :
             LET text == Get(posts[i], "cleaned_caption",
                             Get(posts[i], "caption", <<>>))
             IN  /\ IsStr(text)
                 /\ text # <<>>
                 /\ Len(Strip(text)) >= MinKeywordTextLen }

(***************************************************************************)
(* Indexer.                                                                *)
(***************************************************************************)
\* mutant: every record gives a document, whatever its cleaned caption is
IndexDocsUnfiltered(posts) ==
    [j \in DOMAIN posts |-> Get(posts[j], "cleaned_caption", <<>>)]

\* the page contents of the documents build_vectorstore_from_posts indexes
IndexDocs(posts) ==
    LET ok(p) == /\ "cleaned_caption" \in DOMAIN p
                 /\ IsStr(p["cleaned_caption"])
                 /\ p["cleaned_caption"] # <<>>
                 /\ Len(Strip(p["cleaned_caption"])) > 0
        at == PositionsWhere([i \in DOMAIN posts |-> ok(posts[i])])
    IN  [j \in 1..Len(at) |-> posts[at[j] + 1]["cleaned_caption"]]

(***************************************************************************)
(* Collector.  An item of the scraping service's dataset is a function     *)
(* from the keys it holds to their values; a timestamp is a sequence of    *)
(* chunks, "T" and " " being the separators the code splits on.            *)
(***************************************************************************)
\* s.split(sep)[0]
RECURSIVE SplitFirst(_, _)
SplitFirst(s, sep) ==
    IF s = <<>> \/ s[1] = sep THEN <<>>
    ELSE <<s[1]>> \o SplitFirst(Tail(s), sep)

Contains(s, c) == \E k \in 1..Len(s) : s[k] = c               \* c in s

\* the date of an item, lines 161-165
DateOnly(item) ==
    LET date_str == Get(item, "timestamp", None)
    IN  IF date_str = None \/ date_str = <<>> THEN None
        ELSE IF Contains(date_str, "T") THEN SplitFirst(date_str, "T")
        ELSE SplitFirst(date_str, " ")

\* the record built from one item, lines 168-177
ItemRecord(item, hashtag, now) ==
    [caption      |-> item["caption"],
     date         |-> DateOnly(item),
     shortcode    |-> Get(item, "shortcode", "<None>"),
     url          |-> Get(item, "url", "<None>"),
     hashtag      |-> hashtag,
     likes        |-> Get(item, "likesCount", 0),
     comments     |-> Get(item, "commentsCount", 0),
     collected_at |-> now]

\* `if caption:` on item.get("caption", "")
HasCaption(item) ==
    LET caption == Get(item, "caption", <<>>)
    IN  caption # <<>> /\ caption # None

\* lines 161-163 raise on the item: its timestamp is truthy and not a str, so
\* `"T" in date_str` is a TypeError
ItemRaises(item) == Get(item, "timestamp", None) = Number

\* mutant: an item without a caption gives a record as well
FetchKeepsCaptionless(hashtag, items, now) ==
    IF \E i \in DOMAIN items : ItemRaises(items[i]) THEN <<>>
    ELSE [j \in DOMAIN items |->
            ItemRecord(Put(items[j], "caption", Get(items[j], "caption", <<>>)),
                       hashtag, now)]

\* fetch_posts_from_apify once the service has yielded items, lines 157-184:
\* an item that raises ends the loop in the except branch, which returns []
fetch_posts_from_apify(hashtag, items, now) ==
    IF \E i \in DOMAIN items : ItemRaises(items[i]) THEN <<>>
    ELSE LET at == PositionsWhere([i \in DOMAIN items |-> HasCaption(items[i])])
         IN  [j \in 1..Len(at) |-> ItemRecord(items[at[j] + 1], hashtag, now)]

(***************************************************************************)
(* State.                                                                  *)
(***************************************************************************)
VARIABLES
    pc,         \* position of the run: idle, collecting, saving_raw, checking,
                \* cleaning, scoring_sentiment, extracting_keywords,
                \* saving_final, indexing, done, failed, crashed
    hashtag,    \* hashtag_to_analyze of the run
    posts,      \* run_pipeline's local `posts`
    result,     \* what run_pipeline did: nothing yet, returned a list, raised
    calls,      \* the stage calls of the run so far: stage, input, output
    messages,   \* the status messages the run has shown
    files,      \* DATA_DIR: snapshot files by <<hashtag, "raw" | "final">>
    session,    \* st.session_state: analyzed_posts and vectorstore
    analyzer,   \* the module global _sentiment_analyzer is set
    atStart,    \* files and session as they were when the run started
    runs,       \* runs started in the session
    faults,     \* environment failures so far
    call        \* StageSpec and the other single-call specifications: one call
                \* of one function on given inputs

vars == <<pc, hashtag, posts, result, calls, messages, files, session,
          analyzer, atStart, runs, faults, call>>

pipelineVars == <<pc, hashtag, posts, result, calls, messages, files, session,
                  analyzer, atStart, runs, faults>>

(***************************************************************************)
(* Inputs of the environment.                                              *)
(***************************************************************************)
Hashtags == {"travel", "ootd"}

LongText   == <<"g", "o", "o", "d", " ", "d", "a", "y", " ", "n", "o", "w">>
DigitsText == <<"1", "2", "3", "4", "5">>

\* the captions of the items that carry one: numeric only, a sentence
ItemCaptions == {DigitsText, LongText}

Item(caption, n) ==
    [caption    |-> caption,
     timestamp  |-> <<"2024-01-02", "T", "10:00:00">>,
     shortcode  |-> IF n = 1 THEN "p1" ELSE IF n = 2 THEN "p2" ELSE "p3",
     url        |-> "u",
     likesCount |-> 5]

\* the datasets the service can yield: up to MaxPosts items with a caption,
\* or a single item whose caption is empty
Datasets ==
    UNION { { [n \in 1..len |-> Item(caps[n], n)] :
                caps \in [1..len -> ItemCaptions] } : len \in 0..MaxPosts }
    \cup { <<Item(<<>>, 1)>> }

Raises == [raises |-> TRUE, scores |-> <<>>]

Scores(l0, l1) ==
    [raises |-> FALSE,
     scores |-> << [label |-> "LABEL_0", score |-> l0],
                   [label |-> "LABEL_1", score |-> l1] >>]

\* what the sentiment model does with one text
SentimentOutcomes == {Raises, Scores(10, 90)}

KwRaises == [raises |-> TRUE, phrases |-> <<>>]

\* what the keyword model does with one text
KeywordOutcomes == {KwRaises, [raises |-> FALSE, phrases |-> <<"good day", "now">>]}

\* the number of texts an oracle fails on
Failures(oracle) == Cardinality({i \in DOMAIN oracle : oracle[i].raises})

Absent == [state |-> "absent", data |-> <<>>]

Written(data) == [state |-> "written", data |-> data]

\* open(path, "w") succeeded and json.dump raised: the file is cut short
Truncated == [state |-> "truncated", data |-> <<>>]

FileNames == Hashtags \X {"raw", "final"}

NoResult == [kind |-> "none", posts |-> <<>>]

Call(stage, input, output) ==
    [stage |-> stage, input |-> input, output |-> output]

\* the batch_size of the analyzer get_sentiment_analyzer() builds
default_batch_size == 8

NoCall == [stage |-> "none", done |-> TRUE]

FreshSession ==
    [analyzed_posts |-> [set |-> FALSE, posts |-> <<>>],
     vectorstore    |-> [state |-> "unset", docs |-> <<>>]]

\* the start of a session: nothing analysed yet and DATA_DIR empty
Fresh ==
    [files    |-> [f \in FileNames |-> Absent],
     session  |-> FreshSession,
     analyzer |-> FALSE]

\* the records an earlier analysis of #travel collected, and what it returned
EarlierRaw == fetch_posts_from_apify("travel", <<Item(LongText, 1)>>, 0)

EarlierFinal ==
    extract_keywords(
        analyze_sentiment(clean_captions(EarlierRaw), TRUE, default_batch_size,
                          <<Scores(10, 90)>>),
        TRUE, <<[raises |-> FALSE, phrases |-> <<"good day", "now">>]>>)

\* the session after that earlier analysis completed without a failure
AfterEarlierRun ==
    [files    |-> [f \in FileNames |->
                      IF f = <<"travel", "raw">> THEN Written(EarlierRaw)
                      ELSE IF f = <<"travel", "final">> THEN Written(EarlierFinal)
                      ELSE Absent],
     session  |-> [analyzed_posts |-> [set |-> TRUE, posts |-> EarlierFinal],
                   vectorstore    |-> [state |-> "index",
                                       docs  |-> IndexDocs(EarlierFinal)]],
     analyzer |-> TRUE]

Init ==
    /\ pc = "idle"
    /\ hashtag = ""
    /\ posts = <<>>
    /\ result = NoResult
    /\ calls = <<>>
    /\ messages = {}
    /\ \E start \in {Fresh, AfterEarlierRun} :
          /\ files = start.files
          /\ session = start.session
          /\ analyzer = start.analyzer
          /\ atStart = [files |-> start.files, session |-> start.session]
    /\ runs = 0
    /\ faults = 0
    /\ call = NoCall

(***************************************************************************)
(* The run: main's "분석 시작" button and run_pipeline, one stage a step.     *)
(***************************************************************************)
\* main lines 328-330 and run_pipeline lines 224-227
StartRun(h) ==
    /\ pc \in {"idle", "done", "failed", "crashed"}
    /\ runs < MaxRuns
    /\ pc' = "collecting"
    /\ hashtag' = h
    /\ posts' = <<>>
    /\ result' = NoResult
    /\ calls' = <<>>
    /\ messages' = {}
    /\ atStart' = [files |-> files, session |-> session]
    /\ runs' = runs + 1
    /\ UNCHANGED <<files, session, analyzer, faults, call>>

\* run_pipeline lines 230-236: the service yields a dataset
CollectItems(items) ==
    /\ pc = "collecting"
    /\ posts' = fetch_posts_from_apify(hashtag, items, runs)
    /\ calls' = Append(calls, Call("collect", <<>>, posts'))
    /\ messages' = messages \cup {"collect_success"}
    /\ pc' = "saving_raw"
    /\ UNCHANGED <<hashtag, result, files, session, analyzer, atStart, runs,
                   faults, call>>

\* run_pipeline lines 230-236: the service fails, fetch_posts_from_apify
\* catches it (lines 181-184) and returns []
CollectFails ==
    /\ pc = "collecting"
    /\ faults < MaxFaults
    /\ faults' = faults + 1
    /\ posts' = <<>>
    /\ calls' = Append(calls, Call("collect", <<>>, <<>>))
    /\ messages' = messages \cup {"collect_error"}
    /\ pc' = "saving_raw"
    /\ UNCHANGED <<hashtag, result, files, session, analyzer, atStart, runs,
                   call>>

\* mutant: a successful write leaves an existing file as it is
SaveKeepsExistingFile(data, name, outcome) ==
    CASE outcome = "ok" /\ files[name].state = "absent"
                                -> [files EXCEPT ![name] = Written(data)]
      [] outcome = "ok" /\ files[name].state # "absent" -> files
      [] outcome = "open_fails" -> files
      [] outcome = "dump_fails" -> [files EXCEPT ![name] = Truncated]

\* _save_posts_to_json, lines 186-195, on an outcome of the file system: the
\* write succeeds, or open fails, or json.dump fails after open truncated
\* the file; the failure is printed and swallowed
_save_posts_to_json(data, name, outcome) ==
    CASE outcome = "ok"        -> [files EXCEPT ![name] = Written(data)]
      [] outcome = "open_fails" -> files
      [] outcome = "dump_fails" -> [files EXCEPT ![name] = Truncated]

\* run_pipeline lines 238-243
SaveRaw(outcome) ==
    /\ pc = "saving_raw"
    /\ outcome # "ok" => faults < MaxFaults
    /\ faults' = IF outcome = "ok" THEN faults ELSE faults + 1
    /\ files' = _save_posts_to_json(posts, <<hashtag, "raw">>, outcome)
    /\ messages' = messages \cup
                     {IF outcome = "ok" THEN "raw_saved" ELSE "raw_save_failed",
                      "collected_count"}
    /\ pc' = "checking"
    /\ UNCHANGED <<hashtag, posts, result, calls, session, analyzer, atStart,
                   runs, call>>

\* mutant: main stores the empty result in the session and drops the index
ReturnEmptyStored ==
    /\ pc = "checking"
    /\ posts = <<>>
    /\ result' = [kind |-> "returned", posts |-> <<>>]
    /\ messages' = messages \cup {"warn_no_posts", "warn_not_enough_posts"}
    /\ session' = [analyzed_posts |-> [set |-> TRUE, posts |-> <<>>],
                   vectorstore    |-> [state |-> "none", docs |-> <<>>]]
    /\ pc' = "failed"
    /\ UNCHANGED <<hashtag, posts, calls, files, analyzer, atStart, runs,
                   faults, call>>

\* run_pipeline lines 252-254, and main lines 332 and 392-393 on the empty list
ReturnEmpty ==
    /\ pc = "checking"
    /\ posts = <<>>
    /\ result' = [kind |-> "returned", posts |-> <<>>]
    /\ messages' = messages \cup {"warn_no_posts", "warn_not_enough_posts"}
    /\ pc' = "failed"
    /\ UNCHANGED <<hashtag, posts, calls, files, session, analyzer, atStart,
                   runs, faults, call>>

\* mutant: run_pipeline goes on to the cleaning stage without the check of
\* lines 252-254
CleanWithoutEmptyCheck ==
    /\ pc = "checking"
    /\ posts' = clean_captions(posts)
    /\ calls' = Append(calls, Call("clean", posts, posts'))
    /\ pc' = "scoring_sentiment"
    /\ UNCHANGED <<hashtag, result, messages, files, session, analyzer,
                   atStart, runs, faults, call>>

\* mutant: the keyword stage is called right after cleaning
CleanThenKeywords ==
    /\ pc = "checking"
    /\ posts # <<>>
    /\ posts' = clean_captions(posts)
    /\ calls' = Append(calls, Call("clean", posts, posts'))
    /\ pc' = "extracting_keywords"
    /\ UNCHANGED <<hashtag, result, messages, files, session, analyzer,
                   atStart, runs, faults, call>>

\* run_pipeline lines 252 and 256-257
Clean ==
    /\ pc = "checking"
    /\ posts # <<>>
    /\ posts' = clean_captions(posts)
    /\ calls' = Append(calls, Call("clean", posts, posts'))
    /\ pc' = "scoring_sentiment"
    /\ UNCHANGED <<hashtag, result, messages, files, session, analyzer,
                   atStart, runs, faults, call>>

\* run_pipeline lines 259-261.  load_sentiment_model() and the wrapper
\* analyze_sentiment() each call get_sentiment_analyzer(), which loads the
\* model when the global is unset: load1 and load2 are whether those loads
\* succeed.  The wrapper ignores the pipeline it is handed.
Sentiment(load1, load2, oracle) ==
    /\ pc = "scoring_sentiment"
    /\ LET failed1 == ~analyzer /\ ~load1
           failed2 == ~analyzer /\ ~load1 /\ ~load2
           cost    == (IF failed1 THEN 1 ELSE 0) + (IF failed2 THEN 1 ELSE 0)
                        + Failures(oracle)
           loaded  == analyzer \/ load1 \/ load2
       IN  /\ analyzer => (load1 /\ load2)
           /\ load1 => load2
           /\ faults + cost <= MaxFaults
           /\ faults' = faults + cost
           /\ analyzer' = loaded
           /\ posts' = analyze_sentiment(posts, loaded, default_batch_size,
                                          oracle)
    /\ calls' = Append(calls, Call("sentiment", posts, posts'))
    /\ pc' = "extracting_keywords"
    /\ UNCHANGED <<hashtag, result, messages, files, session, atStart, runs,
                   call>>

\* run_pipeline lines 263-265: load_keyword_model() loads anew in every run
Keywords(loaded, oracle) ==
    /\ pc = "extracting_keywords"
    /\ LET cost == (IF loaded THEN 0 ELSE 1) + Failures(oracle)
       IN  /\ faults + cost <= MaxFaults
           /\ faults' = faults + cost
    /\ posts' = extract_keywords(posts, loaded, oracle)
    /\ calls' = Append(calls, Call("keywords", posts, posts'))
    /\ pc' = "saving_final"
    /\ UNCHANGED <<hashtag, result, messages, files, session, analyzer,
                   atStart, runs, call>>

\* run_pipeline lines 267-273: the final snapshot is written
SaveFinal ==
    /\ pc = "saving_final"
    /\ files' = [files EXCEPT ![<<hashtag, "final">>] = Written(posts)]
    /\ messages' = messages \cup {"pipeline_success"}
    /\ result' = [kind |-> "returned", posts |-> posts]
    /\ pc' = "indexing"
    /\ UNCHANGED <<hashtag, posts, calls, session, analyzer, atStart, runs,
                   faults, call>>

\* run_pipeline lines 267-270: open or json.dump raises, nothing catches it,
\* and the exception leaves run_pipeline and main
SaveFinalFails(outcome) ==
    /\ pc = "saving_final"
    /\ outcome \in {"open_fails", "dump_fails"}
    /\ faults < MaxFaults
    /\ faults' = faults + 1
    /\ files' = IF outcome = "open_fails" THEN files
                ELSE [files EXCEPT ![<<hashtag, "final">>] = Truncated]
    /\ result' = [kind |-> "raised", posts |-> <<>>]
    /\ pc' = "crashed"
    /\ UNCHANGED <<hashtag, posts, calls, messages, session, analyzer,
                   atStart, runs, call>>

\* build_vectorstore_from_posts, lines 58-73, when the embedding succeeds
build_vectorstore_from_posts(list) ==
    IF IndexDocs(list) = <<>> THEN [state |-> "none", docs |-> <<>>]
    ELSE [state |-> "index", docs |-> IndexDocs(list)]

\* main lines 332-342: the result is stored and the index built from it
Index ==
    /\ pc = "indexing"
    /\ result.posts # <<>>
    /\ LET vectorstore_result == build_vectorstore_from_posts(result.posts)
       IN  /\ session' = [analyzed_posts |-> [set |-> TRUE, posts |-> result.posts],
                          vectorstore    |-> vectorstore_result]
           /\ messages' = messages \cup
                            {IF vectorstore_result.state = "index"
                             THEN "index_built" ELSE "index_unavailable"}
    /\ calls' = Append(calls, Call("index", result.posts, <<>>))
    /\ pc' = "done"
    /\ UNCHANGED <<hashtag, posts, result, files, analyzer, atStart, runs,
                   faults, call>>

\* main lines 333-336: the embedding service fails in FAISS.from_documents;
\* analyzed_posts is already stored and the exception leaves main
IndexFails ==
    /\ pc = "indexing"
    /\ IndexDocs(result.posts) # <<>>
    /\ faults < MaxFaults
    /\ faults' = faults + 1
    /\ session' = [session EXCEPT
                     !.analyzed_posts = [set |-> TRUE, posts |-> result.posts]]
    /\ calls' = Append(calls, Call("index", result.posts, <<>>))
    /\ pc' = "crashed"
    /\ UNCHANGED <<hashtag, posts, result, messages, files, analyzer, atStart,
                   runs, call>>

Next ==
    \/ \E h \in Hashtags : StartRun(h)
    \/ \E items \in Datasets : CollectItems(items)
    \/ CollectFails
    \/ \E outcome \in {"ok", "open_fails", "dump_fails"} : SaveRaw(outcome)
    \/ ReturnEmpty
    \/ Clean
    \/ \E load1, load2 \in BOOLEAN :
          \E oracle \in [1..Len(posts) -> SentimentOutcomes] :
              Sentiment(load1, load2, oracle)
    \/ \E loaded \in BOOLEAN :
          \E oracle \in [1..Len(posts) -> KeywordOutcomes] :
              Keywords(loaded, oracle)
    \/ SaveFinal
    \/ \E outcome \in {"open_fails", "dump_fails"} : SaveFinalFails(outcome)
    \/ Index
    \/ IndexFails

Spec == Init /\ [][Next]_vars

(***************************************************************************)
(* StageSpec: one call of one stage on given records, for the contracts    *)
(* of the stages taken alone.                                              *)
(***************************************************************************)
ShortText == <<"a", "b", "c">>

\* records as a stage can receive them: cleaned or not, with a blank or a
\* short cleaned caption, and with a field named index
StageRecords ==
    { [caption |-> LongText,   shortcode |-> "a", cleaned_caption |-> LongText],
      [caption |-> DigitsText, shortcode |-> "b", cleaned_caption |-> <<>>],
      [caption |-> ShortText,  shortcode |-> "c", cleaned_caption |-> ShortText],
      [caption |-> LongText,   shortcode |-> "d"],
      [caption |-> LongText,   shortcode |-> "e", cleaned_caption |-> LongText,
       index |-> 7],
      [caption |-> <<"#", "x">>, shortcode |-> "f", cleaned_caption |-> <<" ">>] }

\* the model returns no class score for a text
NoScores == [raises |-> FALSE, scores |-> <<>>]

\* the model's best class has a label the mapping table does not hold
UnmappedLabel ==
    [raises |-> FALSE,
     scores |-> << [label |-> "LABEL_0", score |-> 30],
                   [label |-> "LABEL_2", score |-> 70] >>]

\* what the sentiment model does with one text: a failure, a confident
\* class, a best score just below and exactly at the threshold, no score at
\* all, and a class outside the mapping table
StageSentimentOutcomes ==
    {Raises, Scores(10, 90), Scores(41, 59), Scores(40, 60), NoScores,
     UnmappedLabel}

StageCall(stage, input, loaded, size, oracle) ==
    [stage |-> stage, input |-> input, loaded |-> loaded,
     batch_size |-> size, oracle |-> oracle, output |-> <<>>, done |-> FALSE]

\* the calls: a stage, up to MaxLen records, whether the stage's model is
\* loaded, a batch size up to MaxBatch, and what the model does with each text
IsStageCall(c) ==
    \E len \in 0..MaxLen : \E input \in [1..len -> StageRecords] :
        \/ c = StageCall("clean", input, TRUE, 1, <<>>)
        \/ \E loaded \in BOOLEAN, size \in 1..MaxBatch :
              \E oracle \in [1..len -> StageSentimentOutcomes] :
                  c = StageCall("sentiment", input, loaded, size, oracle)
        \/ \E loaded \in BOOLEAN : \E oracle \in [1..len -> KeywordOutcomes] :
              c = StageCall("keywords", input, loaded, 1, oracle)

StageInit ==
    /\ pc = "idle"
    /\ hashtag = ""
    /\ posts = <<>>
    /\ result = NoResult
    /\ calls = <<>>
    /\ messages = {}
    /\ files = Fresh.files
    /\ session = Fresh.session
    /\ analyzer = FALSE
    /\ atStart = [files |-> Fresh.files, session |-> Fresh.session]
    /\ runs = 0
    /\ faults = 0
    /\ IsStageCall(call)

Returns(output) == call' = [call EXCEPT !.output = output, !.done = TRUE]

CallClean ==
    /\ ~call.done /\ call.stage = "clean"
    /\ Returns(clean_captions(call.input))
    /\ UNCHANGED pipelineVars

CallSentiment ==
    /\ ~call.done /\ call.stage = "sentiment"
    /\ Returns(analyze_sentiment(call.input, call.loaded, call.batch_size,
                                 call.oracle))
    /\ UNCHANGED pipelineVars

CallKeywords ==
    /\ ~call.done /\ call.stage = "keywords"
    /\ Returns(extract_keywords(call.input, call.loaded, call.oracle))
    /\ UNCHANGED pipelineVars

StageNext == CallClean \/ CallSentiment \/ CallKeywords

StageSpec == StageInit /\ [][StageNext]_vars

(***************************************************************************)
(* Properties.                                                             *)
(***************************************************************************)
\* the collector of the run has returned, and returned no record
EmptyCollection == calls # <<>> /\ calls[1].output = <<>>

\* the collector of the run has returned at least one record
SomeCollected == calls # <<>> /\ calls[1].output # <<>>

\* run_pipeline has returned the enriched list
RunSucceeded == result.kind = "returned" /\ result.posts # <<>>

\* C1: when the collector returns an empty list, no later stage is invoked,
\* pipeline success is never reported, and the run ends by returning an empty
\* list with the no-posts warning.
C1_EmptyCollectionStopsRun ==
    EmptyCollection =>
        /\ Len(calls) = 1
        /\ "pipeline_success" \notin messages
        /\ pc \in {"saving_raw", "checking", "failed"}
        /\ pc = "failed" =>
              /\ result = [kind |-> "returned", posts |-> <<>>]
              /\ "warn_no_posts" \in messages

C1_Witness == pc = "failed" /\ EmptyCollection /\ result.posts = <<>>

CleanedOf(post) == Get(post, "cleaned_caption", <<>>)

SentimentCallDone == call.stage = "sentiment" /\ call.done

\* C2: analyze_sentiment returns a list of the length of its input whose
\* record at position i is the record at position i of the input (same
\* caption and shortcode) with sentiment and score set, for every batch size,
\* every mix of blank and non-blank captions and every failing batch.
C2_SentimentKeepsLengthAndOrder ==
    SentimentCallDone =>
        /\ Len(call.output) = Len(call.input)
        /\ \A i \in 1..Len(call.input) :
              /\ call.output[i]["caption"] = call.input[i]["caption"]
              /\ call.output[i]["shortcode"] = call.input[i]["shortcode"]
              /\ {"sentiment", "score"} \subseteq DOMAIN call.output[i]

\* a non-blank record before a blank one: the blank one is produced first
C2_Witness ==
    /\ SentimentCallDone /\ call.loaded
    /\ Len(call.input) = 2
    /\ ~IsBlank(CleanedOf(call.input[1]))
    /\ IsBlank(CleanedOf(call.input[2]))
    /\ call.input[1]["shortcode"] # call.input[2]["shortcode"]
    /\ call.output[2]["sentiment"] = "unprocessable"

\* C3: a model failure on one text gives the error sentinel and score 0 to
\* that text's record only; every other record with a non-blank caption gets
\* the label and score the model gives it.
C3_FailureStaysWithItsText ==
    (SentimentCallDone /\ call.loaded) =>
        \A i \in 1..Len(call.input) :
            ~IsBlank(CleanedOf(call.input[i])) =>
                LET want == IF call.oracle[i].raises
                            THEN [sentiment |-> "error", score |-> 0]
                            ELSE classify_sentiment(call.oracle[i].scores)
                IN  /\ call.output[i]["sentiment"] = want.sentiment
                    /\ call.output[i]["score"] = want.score

SentimentPairs(list) ==
    [i \in DOMAIN list |-> <<list[i]["sentiment"], list[i]["score"]>>]

\* C4: for a fixed input and a fixed behaviour of the model on each text, the
\* (sentiment, score) pairs are the same for every batch size.
C4_BatchSizeDoesNotMatter ==
    SentimentCallDone =>
        \A size \in 1..MaxBatch :
            SentimentPairs(analyze_sentiment(call.input, call.loaded, size,
                                             call.oracle))
                = SentimentPairs(call.output)

\* C5: once the sentiment and the keyword stage of a run have executed, every
\* record with an empty cleaned_caption has sentiment unprocessable, score 0
\* and keywords equal to the empty list, whether or not the models loaded.
C5_SentinelsOnEmptyCaption ==
    Len(calls) >= 4 =>
        \A i \in 1..Len(calls[4].output) :
            LET post == calls[4].output[i]
            IN  post["cleaned_caption"] = <<>> =>
                    /\ post["sentiment"] = "unprocessable"
                    /\ post["score"] = 0
                    /\ "keywords" \in DOMAIN post
                    /\ post["keywords"] = <<>>

\* C6: the record a stage returns has every field name the record had on
\* entry, for records with any field names, one named index included.
C6_NoStageRemovesAField ==
    (call.stage \in {"clean", "sentiment", "keywords"} /\ call.done) =>
        /\ Len(call.output) = Len(call.input)
        /\ \A i \in 1..Len(call.input) :
              DOMAIN call.input[i] \subseteq DOMAIN call.output[i]

\* C7: once the collector has returned a record, run_pipeline neither ends in
\* failure nor lets an exception out, whatever fails on the way.
C7_OnlyCollectionCanFail ==
    SomeCollected => (result.kind # "raised" /\ pc # "failed")

StageOrder == <<"collect", "clean", "sentiment", "keywords", "index">>

\* C8: the stages of a run are invoked in the order collect, clean, sentiment,
\* keywords, index, each at most once, each on the list the stage before it
\* returned; the index is built from the list the keyword stage returned.
C8_StagesRunInOrder ==
    /\ Len(calls) <= Len(StageOrder)
    /\ \A k \in 1..Len(calls) :
          /\ calls[k].stage = StageOrder[k]
          /\ k > 1 => calls[k].input = calls[k - 1].output

C8_Witness == pc = "done" /\ Len(calls) = 5 /\ Len(calls[5].input) = MaxPosts

RawFile   == files[<<hashtag, "raw">>]
FinalFile == files[<<hashtag, "final">>]

\* C9 as claimed: every run that completes successfully has written the raw
\* snapshot, holding the collected records, and the final snapshot, holding
\* the returned list.
C9_BothSnapshotsWritten ==
    RunSucceeded =>
        /\ RawFile = Written(calls[1].output)
        /\ FinalFile = Written(result.posts)

\* C9 amended: every run that completes successfully has written the final
\* snapshot of its hashtag, after keyword extraction and before indexing,
\* holding the returned list in place of any earlier file; the raw snapshot
\* is attempted after collection and before cleaning and, when that write
\* succeeds, holds the collected records in place of any earlier file; no
\* file of another hashtag changes.
C9_SnapshotsOfASuccessfulRun ==
    pc # "idle" =>
        /\ RunSucceeded => FinalFile = Written(result.posts)
        /\ result.kind = "none" => FinalFile = atStart.files[<<hashtag, "final">>]
        /\ Len(calls) = 5 => RunSucceeded
        /\ "raw_saved" \in messages => RawFile = Written(calls[1].output)
        /\ Len(calls) >= 2 => \/ "raw_saved" \in messages
                              \/ "raw_save_failed" \in messages
        /\ Len(calls) = 0 => RawFile = atStart.files[<<hashtag, "raw">>]
        /\ \A f \in FileNames : f[1] # hashtag => files[f] = atStart.files[f]

\* a successful run on a hashtag whose snapshots an earlier run had written
C9_Witness ==
    /\ pc = "done"
    /\ "raw_saved" \in messages
    /\ atStart.files[<<hashtag, "raw">>].state = "written"
    /\ atStart.files[<<hashtag, "final">>].state = "written"
    /\ RawFile # atStart.files[<<hashtag, "raw">>]
    /\ FinalFile # atStart.files[<<hashtag, "final">>]

\* C10: a run whose collector returns no record leaves every final snapshot,
\* the session's analysis result and the session's index as they were.
C10_EmptyRunLeavesResultsAlone ==
    EmptyCollection =>
        /\ \A h \in Hashtags :
              files[<<h, "final">>] = atStart.files[<<h, "final">>]
        /\ session = atStart.session

\* an empty run after an earlier analysis of the same hashtag
C10_Witness ==
    /\ pc = "failed"
    /\ EmptyCollection
    /\ session.analyzed_posts.set
    /\ session.vectorstore.state = "index"
    /\ FinalFile.state = "written"

\* the fields the collector sets on a record (ItemRecord)
CollectorFields ==
    {"caption", "date", "shortcode", "url", "hashtag", "likes", "comments",
     "collected_at"}

\* C11: no stage after collection changes the value of a field an earlier
\* stage set: each of the cleaning, sentiment and keyword stages returns, at
\* every position, a record that has every field of the record it was given
\* with the same value, and the records the run returns have the collector's
\* fields as the collector set them.
C11_EarlierFieldsKeepTheirValues ==
    /\ \A k \in 2..Len(calls) :
          calls[k].stage \in {"clean", "sentiment", "keywords"} =>
              /\ Len(calls[k].output) = Len(calls[k].input)
              /\ \A i \in 1..Len(calls[k].input) :
                    \A f \in DOMAIN calls[k].input[i] :
                        /\ f \in DOMAIN calls[k].output[i]
                        /\ calls[k].output[i][f] = calls[k].input[i][f]
    /\ RunSucceeded =>
          /\ Len(result.posts) = Len(calls[1].output)
          /\ \A i \in 1..Len(result.posts) : \A f \in CollectorFields :
                result.posts[i][f] = calls[1].output[i][f]

\* a finished run with a record whose cleaned caption differs from its
\* caption and that the model scored
C11_Witness ==
    /\ pc = "done"
    /\ \E i \in 1..Len(result.posts) :
          /\ result.posts[i]["cleaned_caption"] # result.posts[i]["caption"]
          /\ "keywords" \in DOMAIN result.posts[i]
    /\ \E i \in 1..Len(result.posts) :
          result.posts[i]["sentiment"] = "positive"

SentimentValues ==
    {"positive", "neutral", "negative", "unprocessable", "error"}

\* C12: after the sentiment stage the sentiment of every record is one of
\* positive, neutral, negative, unprocessable and error, whatever label the
\* model emits and also when it emits no score, and the score is 0 whenever
\* the sentiment is unprocessable or error.
C12_SentimentIsOneOfFive ==
    SentimentCallDone =>
        \A i \in 1..Len(call.output) :
            /\ call.output[i]["sentiment"] \in SentimentValues
            /\ call.output[i]["sentiment"] \in {"unprocessable", "error"}
                  => call.output[i]["score"] = 0

\* the scores of the call's record i when the model scored it: the caption
\* is not blank and no text of the call made the model raise
Scored(i) ==
    /\ SentimentCallDone /\ call.loaded
    /\ ~IsBlank(CleanedOf(call.input[i]))
    /\ \A j \in 1..Len(call.input) : ~call.oracle[j].raises
    /\ call.oracle[i].scores # <<>>

\* C13: from a non-empty set of class scores classify_sentiment takes a class
\* of the highest score and returns that score; below the threshold of 0.6
\* the label is neutral whatever the class, at or above it the label is the
\* one the mapping table gives the class.
C13_HighestClassWithNeutralBelowThreshold ==
    \A i \in 1..Len(call.input) :
        Scored(i) =>
            LET scores == call.oracle[i].scores
                out    == call.output[i]
            IN  \E k \in 1..Len(scores) :
                    /\ \A j \in 1..Len(scores) : scores[j].score <= scores[k].score
                    /\ out["score"] = scores[k].score
                    /\ scores[k].score < 60 => out["sentiment"] = "neutral"
                    /\ (scores[k].score >= 60
                          /\ scores[k].label \in DOMAIN label_mapping)
                          => out["sentiment"] = label_mapping[scores[k].label]

\* one call that scores a text just below the threshold and another exactly
\* at it
C13_Witness ==
    /\ Len(call.input) = 2
    /\ Scored(1) /\ Scored(2)
    /\ call.oracle[1] = Scores(41, 59) /\ call.output[1]["sentiment"] = "neutral"
    /\ call.oracle[2] = Scores(40, 60) /\ call.output[2]["sentiment"] = "positive"

(***************************************************************************)
(* CleanSpec: clean_caption applied to a caption, and again to its result. *)
(***************************************************************************)
\* no run in progress and nothing stored: the state the single-call
\* specifications leave the pipeline in
IdlePipeline ==
    /\ pc = "idle"
    /\ hashtag = ""
    /\ posts = <<>>
    /\ result = NoResult
    /\ calls = <<>>
    /\ messages = {}
    /\ files = Fresh.files
    /\ session = Fresh.session
    /\ analyzer = FALSE
    /\ atStart = [files |-> Fresh.files, session |-> Fresh.session]
    /\ runs = 0
    /\ faults = 0

\* the characters of the captions tried: word characters, a digit, the dot
\* of a domain name, the hashtag mark, a space, and "$", a character outside
\* the whitelist of step 5
TextChars == {"k", "r", "1", ".", "#", " ", "$"}

CleanCall(text) ==
    [stage |-> "clean_caption", input |-> text, output |-> <<>>,
     raised |-> FALSE, done |-> FALSE, again |-> <<>>, twice |-> FALSE]

\* the captions: every text of up to MaxText characters, None and a number
CleanInit ==
    /\ IdlePipeline
    /\ \/ \E n \in 0..MaxText : \E text \in [1..n -> TextChars] :
             call = CleanCall(text)
       \/ call = CleanCall(None)
       \/ call = CleanCall(Number)

\* clean_caption(text), lines 10-59
CleanOnce ==
    /\ call.stage = "clean_caption" /\ ~call.done
    /\ call' = [call EXCEPT !.output = clean_caption(call.input),
                            !.done = TRUE]
    /\ UNCHANGED pipelineVars

\* clean_caption(text) when a step of lines 24-49 raises: the except branch
\* of lines 61-64 prints the fault and returns ""
CleanFaults ==
    /\ call.stage = "clean_caption" /\ ~call.done
    /\ IsStr(call.input) /\ call.input # <<>>
    /\ call' = [call EXCEPT !.output = <<>>, !.done = TRUE]
    /\ UNCHANGED pipelineVars

\* clean_caption applied to the result of the first call
CleanAgain ==
    /\ call.stage = "clean_caption" /\ call.done /\ ~call.twice
    /\ call' = [call EXCEPT !.again = clean_caption(call.output),
                            !.twice = TRUE]
    /\ UNCHANGED pipelineVars

CleanNext == CleanOnce \/ CleanFaults \/ CleanAgain

CleanSpec == CleanInit /\ [][CleanNext]_vars

\* C14: cleaning is idempotent: clean_caption of a cleaned caption is that
\* cleaned caption, also when removing a character outside the whitelist
\* leaves a token that the hashtag, mention or URL removal would have taken.
C14_CleaningIsIdempotent ==
    (call.stage = "clean_caption" /\ call.twice) => call.again = call.output

\* C15: clean_caption returns for every input, and its result is either the
\* empty string or a string of at least 3 characters that are not all
\* digits; an empty, null or non-text input gives the empty string.
C15_CleanedIsEmptyOrMeaningful ==
    (call.stage = "clean_caption" /\ call.done) =>
        /\ ~call.raised
        /\ IsStr(call.output)
        /\ \/ call.output = <<>>
           \/ /\ Len(call.output) >= 3
              /\ \E k \in 1..Len(call.output) : call.output[k] \notin Digits
        /\ (call.input = <<>> \/ call.input = None \/ call.input = Number)
              => call.output = <<>>

\* a caption of digits whose cleaned form is forced to the empty string
C15_Witness ==
    /\ call.stage = "clean_caption" /\ call.done
    /\ call.input = <<"$", "1", "1", "1", "1">>
    /\ call.output = <<>>

(***************************************************************************)
(* CollectSpec: one call of a collector, fetch_posts_from_apify or the     *)
(* older SafeInstagramScraper.fetch_hashtag_posts, on what the scraping    *)
(* service yields.                                                         *)
(***************************************************************************)
\* the items a service can yield: with a caption and an ISO timestamp, with
\* an empty caption, with a timestamp that is a number, with neither caption
\* nor timestamp, with a space-separated timestamp, and with a timestamp
\* that is text but no date
ServiceItems ==
    { Item(LongText, 1),
      Item(<<>>, 1),
      [Item(LongText, 2) EXCEPT !.timestamp = Number],
      [shortcode |-> "p3"],
      [Item(DigitsText, 3) EXCEPT
          !.timestamp = <<"2024-01-02", " ", "10:00:00">>],
      [Item(LongText, 1) EXCEPT !.timestamp = <<"yesterday">>] }

CollectCall(stage, max_count, token, fails, items) ==
    [stage |-> stage, max_count |-> max_count, token |-> token,
     fails |-> fails, items |-> items, output |-> <<>>, messages |-> {},
     raised |-> FALSE, done |-> FALSE]

\* the calls: a collector, a max_count up to MaxCount, whether an API token
\* is configured, whether the service call fails, and up to MaxItems items
CollectInit ==
    /\ IdlePipeline
    /\ \E stage \in {"fetch_apify", "fetch_scraper"}, max_count \in 1..MaxCount,
          token, fails \in BOOLEAN, len \in 0..MaxItems :
          \E items \in [1..len -> ServiceItems] :
              call = CollectCall(stage, max_count, token, fails, items)

\* fetch_posts_from_apify, lines 121-184; max_count only goes into the
\* actor's run_input (line 138)
CallFetchApify ==
    /\ call.stage = "fetch_apify" /\ ~call.done
    /\ LET failed == call.fails \/ \E i \in DOMAIN call.items :
                                       ItemRaises(call.items[i])
           output == IF ~call.token \/ failed THEN <<>>
                     ELSE fetch_posts_from_apify("travel", call.items, 1)
           shown  == IF ~call.token THEN {"error_no_token"}
                     ELSE IF failed
                          THEN {"info_running", "error_scraping",
                                "warn_check_token"}
                          ELSE {"info_running", "success_collected"}
       IN  call' = [call EXCEPT !.output = output, !.messages = shown,
                                !.done = TRUE]
    /\ UNCHANGED pipelineVars

\* the loop of fetch_hashtag_posts, lines 70-101, from item i on with the
\* given number collected: it stops at max_count, skips a post without a
\* caption and a post whose processing raises
RECURSIVE ScraperLoop(_, _, _, _)
ScraperLoop(items, i, collected, max_count) ==
    IF i > Len(items) \/ collected >= max_count THEN <<>>
    ELSE IF ~HasCaption(items[i]) \/ ItemRaises(items[i])
         THEN ScraperLoop(items, i + 1, collected, max_count)
         ELSE << [caption   |-> items[i]["caption"],
                  shortcode |-> Get(items[i], "shortcode", "<None>"),
                  hashtag   |-> "travel"] >>
              \o ScraperLoop(items, i + 1, collected + 1, max_count)

\* SafeInstagramScraper.fetch_hashtag_posts, lines 49-126: [] when every
\* attempt fails
CallFetchScraper ==
    /\ call.stage = "fetch_scraper" /\ ~call.done
    /\ call' = [call EXCEPT
                  !.output = IF call.fails THEN <<>>
                             ELSE ScraperLoop(call.items, 1, 0, call.max_count),
                  !.done = TRUE]
    /\ UNCHANGED pipelineVars

CollectNext == CallFetchApify \/ CallFetchScraper

CollectSpec == CollectInit /\ [][CollectNext]_vars

\* C16: a collector never returns more records than the max_count it was
\* asked for, however many items the service yields.
C16_CollectorRespectsLimit ==
    (call.stage \in {"fetch_apify", "fetch_scraper"} /\ call.done) =>
        Len(call.output) <= call.max_count

\* the call of fetch_posts_from_apify failed: the service call, or the
\* processing of one of the items it yielded
FetchFailed ==
    call.fails \/ \E i \in DOMAIN call.items : ItemRaises(call.items[i])

\* C17: fetch_posts_from_apify never raises; when the service or the
\* processing of an item fails it returns the empty list and shows an error
\* message, and every record it returns has a non-empty caption.
C17_FetchFailsToEmptyList ==
    (call.stage = "fetch_apify" /\ call.done) =>
        /\ ~call.raised
        /\ (call.token /\ FetchFailed) =>
              /\ call.output = <<>>
              /\ "error_scraping" \in call.messages
        /\ ~call.token => (call.output = <<>> /\ call.messages # {})
        /\ \A i \in 1..Len(call.output) :
              /\ call.output[i]["caption"] # <<>>
              /\ call.output[i]["caption"] # None

\* an item that cannot be processed after one that can: nothing is returned
C17_Witness ==
    /\ call.stage = "fetch_apify" /\ call.done /\ call.token /\ ~call.fails
    /\ Len(call.items) = 2
    /\ ~ItemRaises(call.items[1]) /\ HasCaption(call.items[1])
    /\ ItemRaises(call.items[2])
    /\ call.output = <<>>
    /\ "error_scraping" \in call.messages

\* the text extract_keywords reads from a record
KeywordText(post) ==
    Get(post, "cleaned_caption", Get(post, "caption", <<>>))

\* C18: extract_keywords gives every record whose text is shorter than 10
\* characters the empty keyword list without invoking the model for it, and
\* a model failure on one record empties that record's keywords only: every
\* other record gets the phrases the model returns for it.
C18_ShortTextsAndFailuresGetNoKeywords ==
    (call.stage = "keywords" /\ call.done) =>
        /\ Len(call.output) = Len(call.input)
        /\ \A i \in 1..Len(call.input) :
              LET text == KeywordText(call.input[i])
                  out  == call.output[i]
              IN  /\ "keywords" \in DOMAIN out
                  /\ Len(text) < 10 =>
                        /\ out["keywords"] = <<>>
                        /\ i \notin KeywordModelCalls(call.input, call.loaded,
                                                      call.oracle)
                  /\ Len(text) >= 10 =>
                        out["keywords"] = IF call.oracle[i].raises THEN <<>>
                                          ELSE call.oracle[i].phrases

\* main line 420, `if posts and vectorstore:`: the chat tab offers the
\* question box
ChatAvailable ==
    /\ session.analyzed_posts.posts # <<>>
    /\ session.vectorstore.state = "index"

\* the cleaned captions of the run's records that are not blank, in order
NonBlankCaptions ==
    LET keep == SelectSeq(result.posts,
                          LAMBDA p : ~IsBlank(p["cleaned_caption"]))
    IN  [j \in 1..Len(keep) |-> keep[j]["cleaned_caption"]]

\* C19: the index of a run is built from exactly the records whose
\* cleaned_caption is a non-blank string; when there is none, no index is
\* built, the session's index is set to absent, the chat is unavailable, and
\* no error is raised.
C19_IndexHoldsNonBlankCaptions ==
    /\ pc = "done" =>
          /\ session.analyzed_posts.posts = result.posts
          /\ session.vectorstore.docs = NonBlankCaptions
          /\ NonBlankCaptions # <<>> => session.vectorstore.state = "index"
          /\ NonBlankCaptions = <<>> =>
                /\ session.vectorstore.state = "none"
                /\ "index_unavailable" \in messages
                /\ ~ChatAvailable
    /\ (pc = "crashed" /\ Len(calls) = 5) => NonBlankCaptions # <<>>
    /\ (pc = "indexing" /\ NonBlankCaptions = <<>>) => ENABLED Index

\* a successful run none of whose records has text left after cleaning,
\* in a session that had an index from an earlier run
C19_Witness ==
    /\ pc = "done"
    /\ result.posts # <<>>
    /\ NonBlankCaptions = <<>>
    /\ atStart.session.vectorstore.state = "index"
    /\ session.vectorstore.state = "none"

(***************************************************************************)
(* ChatSpec: the chat tab of a session, main lines 415-454, and the        *)
(* function solar_rag_answer_multi it calls.  The retriever and the        *)
(* language model are external: each call of one either answers or raises. *)
(***************************************************************************)
NoApiKeyMessage == "no_api_key"       \* the return value of line 82
NoIndexMessage  == "cannot_answer"    \* the return value of line 85

Questions == {"q1", "q2"}
Answers   == {"a1", "a2"}             \* response.content of the model

\* solar_rag_answer_multi, lines 76-118: api_key and vectorstore are whether
\* the arguments are set, retrieves whether retriever.invoke answers, and
\* content what chain.invoke returns, "<raises>" when it raises
solar_rag_answer_multi(api_key, vectorstore, retrieves, content) ==
    IF ~api_key THEN [kind |-> "returned", content |-> NoApiKeyMessage]
    ELSE IF ~vectorstore THEN [kind |-> "returned", content |-> NoIndexMessage]
    ELSE IF ~retrieves \/ content = "<raises>"
         THEN [kind |-> "raised", content |-> ""]
    ELSE [kind |-> "returned", content |-> content]

ChatSession(analyzed, vectorstore, api_key) ==
    [stage |-> "chat", posts |-> analyzed, vectorstore |-> vectorstore,
     api_key |-> api_key, chat_history |-> <<>>, question |-> "",
     retrieves |-> TRUE, content |-> "",
     outcome |-> [kind |-> "none", content |-> ""], asked |-> 0]

\* a session with or without analysed posts, with or without an index, and
\* a caller with or without an API key
ChatInit ==
    /\ IdlePipeline
    /\ \E analyzed, vectorstore, api_key \in BOOLEAN :
          call = ChatSession(analyzed, vectorstore, api_key)

\* main lines 420-437: the question box is shown when the session has posts
\* and an index; the button calls solar_rag_answer_multi and appends the
\* pair (question, answer) to the history when the call returns
SendQuestion(question, retrieves, content) ==
    /\ call.stage = "chat" /\ call.asked < MaxQuestions
    /\ call.posts /\ call.vectorstore
    /\ LET answer == solar_rag_answer_multi(call.api_key, call.vectorstore,
                                            retrieves, content)
       IN  call' = [call EXCEPT
                      !.question = question,
                      !.retrieves = retrieves,
                      !.content = content,
                      !.outcome = answer,
                      !.asked = @ + 1,
                      !.chat_history =
                          IF answer.kind = "returned"
                          THEN Append(@, <<question, answer.content>>)
                          ELSE @]
    /\ UNCHANGED pipelineVars

\* solar_rag_answer_multi called on a session without an index; main never
\* does so, line 420 hides the question box, and nothing is appended
AskWithoutIndex(question) ==
    /\ call.stage = "chat" /\ call.asked < MaxQuestions
    /\ ~(call.posts /\ call.vectorstore)
    /\ call' = [call EXCEPT
                  !.question = question,
                  !.outcome = solar_rag_answer_multi(call.api_key, FALSE,
                                                     TRUE, "a1"),
                  !.asked = @ + 1]
    /\ UNCHANGED pipelineVars

\* main lines 441-443: the history is emptied
ClearHistory ==
    /\ call.stage = "chat"
    /\ call.posts /\ call.vectorstore
    /\ call.chat_history # <<>>
    /\ call' = [call EXCEPT !.chat_history = <<>>]
    /\ UNCHANGED pipelineVars

ChatNext ==
    \/ \E question \in Questions, retrieves \in BOOLEAN,
          content \in Answers \cup {"<raises>"} :
          SendQuestion(question, retrieves, content)
    \/ \E question \in Questions : AskWithoutIndex(question)
    \/ ClearHistory

ChatSpec == ChatInit /\ [][ChatNext]_vars

\* C20: the chat fails closed: without an index, or with the retrieval or
\* the answering service unreachable, solar_rag_answer_multi returns the
\* fixed cannot-answer message instead of raising, and the question is
\* recorded in the history with that message as its answer.
C20_ChatFailsClosed ==
    (call.stage = "chat" /\ call.outcome.kind # "none"
       /\ call.api_key
       /\ (~call.vectorstore \/ ~call.retrieves \/ call.content = "<raises>"))
    =>  /\ call.outcome = [kind |-> "returned", content |-> NoIndexMessage]
        /\ call.chat_history # <<>>
        /\ call.chat_history[Len(call.chat_history)]
              = <<call.question, NoIndexMessage>>

(***************************************************************************)
(* SnapshotSpec: a list of records written by one of the snapshot writers  *)
(* and read back by one of the readers.  A file is opened with             *)
(* encoding="utf-8" and json.dump(..., ensure_ascii=False) writes the      *)
(* characters as they are, so a character is stored as its UTF-8 encoding; *)
(* "SURROGATE" is a lone surrogate code point, as json.loads gives for an  *)
(* unpaired \ud83d escape, which UTF-8 cannot encode.                      *)
(***************************************************************************)
TextFields == {"caption", "cleaned_caption"}

\* the file's encoder accepts every character of the text
Utf8Encodable(text) == \A k \in 1..Len(text) : text[k] # "SURROGATE"

\* a text as the file holds it, and as json.load gives it back
JsonString(text)  == [k \in 1..Len(text) |-> <<"utf8", text[k]>>]
JsonText(encoded) == [k \in 1..Len(encoded) |-> encoded[k][2]]

\* a record as a JSON object, and back
JsonObject(post) ==
    [f \in DOMAIN post |->
        IF f \in TextFields THEN JsonString(post[f]) ELSE post[f]]

JsonRecord(object) ==
    [f \in DOMAIN object |->
        IF f \in TextFields THEN JsonText(object[f]) ELSE object[f]]

\* json.dump can write every record of the list
Dumpable(list) ==
    \A i \in 1..Len(list) : \A f \in DOMAIN list[i] \cap TextFields :
        Utf8Encodable(list[i][f])

NoDocument == [shape |-> "none", keys |-> {}, posts |-> <<>>]

NoFile      == [state |-> "absent", doc |-> NoDocument]
PartialFile == [state |-> "truncated", doc |-> NoDocument]

\* the JSON value a writer hands to json.dump: _save_posts_to_json the list
\* itself (app.py 192), save_cleaned_posts an object with posts and summary
\* (cleaner.py 141-148), save_keyword_analysis an object with posts,
\* keyword_analysis and analysis_date (keywords.py 106-114)
Document(writer, list) ==
    [shape |-> IF writer = "_save_posts_to_json" THEN "array" ELSE "object",
     keys  |-> IF writer = "_save_posts_to_json" THEN {}
               ELSE IF writer = "save_cleaned_posts" THEN {"posts", "summary"}
               ELSE {"posts", "keyword_analysis", "analysis_date"},
     posts |-> [i \in 1..Len(list) |-> JsonObject(list[i])]]

\* a writer's effect on the file: open(save_path, "w") truncates it, then
\* json.dump writes until it is done or a write raises; every writer
\* catches the exception and prints it
WriteFile(writer, list, io, old) ==
    IF io = "open_fails" THEN old
    ELSE IF io = "dump_fails" \/ ~Dumpable(list) THEN PartialFile
    ELSE [state |-> "written", doc |-> Document(writer, list)]

\* load_posts, cleaner.py 160-188
load_posts(file) ==
    IF file.state # "written" THEN <<>>
    ELSE IF file.doc.shape = "array" \/ "posts" \in file.doc.keys
         THEN [i \in 1..Len(file.doc.posts) |-> JsonRecord(file.doc.posts[i])]
    ELSE <<>>

\* load_analyzed_posts, keywords.py 128-156
load_analyzed_posts(file) ==
    IF file.state # "written" THEN <<>>
    ELSE IF file.doc.shape = "array" THEN
         [i \in 1..Len(file.doc.posts) |-> JsonRecord(file.doc.posts[i])]
    ELSE IF file.doc.shape = "object" /\ "posts" \in file.doc.keys THEN
         [i \in 1..Len(file.doc.posts) |-> JsonRecord(file.doc.posts[i])]
    ELSE <<>>

\* records as the snapshots hold them: collected, fully enriched, and one
\* whose caption ends in a lone surrogate
SnapshotRecords ==
    { [caption |-> <<"a", "b">>, shortcode |-> "p1", likes |-> 5],
      [caption |-> <<"HANGUL", "a">>, shortcode |-> "p2",
       cleaned_caption |-> <<"HANGUL", "a">>, sentiment |-> "positive",
       score |-> 90, keywords |-> <<"good day">>],
      [caption |-> <<"a", "SURROGATE">>, shortcode |-> "p3", likes |-> 0] }

Writers == {"_save_posts_to_json", "save_cleaned_posts", "save_keyword_analysis"}
Readers == {"load_posts", "load_analyzed_posts"}

SnapshotCall(writer, reader, list, io, old) ==
    [stage |-> "snapshot", writer |-> writer, reader |-> reader,
     posts |-> list, io |-> io, file |-> old, written |-> FALSE,
     output |-> <<>>, done |-> FALSE]

\* a writer, a reader, up to MaxLen records, what the file system does, and
\* whether the file exists already
SnapshotInit ==
    /\ IdlePipeline
    /\ \E writer \in Writers, reader \in Readers,
          io \in {"ok", "open_fails", "dump_fails"}, len \in 0..MaxLen :
          \E list \in [1..len -> SnapshotRecords] :
              \E old \in {NoFile, WriteFile(writer, <<>>, "ok", NoFile)} :
                  call = SnapshotCall(writer, reader, list, io, old)

WriteSnapshot ==
    /\ call.stage = "snapshot" /\ ~call.written
    /\ call' = [call EXCEPT
                  !.file = WriteFile(call.writer, call.posts, call.io, @),
                  !.written = TRUE]
    /\ UNCHANGED pipelineVars

ReadSnapshot ==
    /\ call.stage = "snapshot" /\ call.written /\ ~call.done
    /\ call' = [call EXCEPT
                  !.output = IF call.reader = "load_posts"
                             THEN load_posts(call.file)
                             ELSE load_analyzed_posts(call.file),
                  !.done = TRUE]
    /\ UNCHANGED pipelineVars

SnapshotNext == WriteSnapshot \/ ReadSnapshot

SnapshotSpec == SnapshotInit /\ [][SnapshotNext]_vars

\* C21: for every list of records, writing it with any of the snapshot
\* writers and reading the file back with either reader gives a list equal
\* to the original in content and order (the file system working).
C21_SnapshotRoundTrip ==
    (call.stage = "snapshot" /\ call.done /\ call.io = "ok") =>
        call.output = call.posts

\* the date chunks of the form YYYY-MM-DD among the timestamps tried
IsoDates == {"2024-01-02"}

IsIsoDate(date) == Len(date) = 1 /\ date[1] \in IsoDates

\* the items of the call that carry a caption, in order
Captioned == SelectSeq(call.items, HasCaption)

\* the date the claim gives an item: the leading YYYY-MM-DD of a timestamp
\* that has one, null otherwise
ClaimedDate(item) ==
    LET timestamp == Get(item, "timestamp", None)
    IN  IF timestamp \in {None, Number, <<>>} THEN None
        ELSE IF timestamp[1] \in IsoDates THEN <<timestamp[1]>>
        ELSE None

\* C22: every record the collector returns has a date that is null or a
\* string of the form YYYY-MM-DD; a timestamp that is no date gives null for
\* its record and leaves the other records as they are.
C22_DateIsIsoOrNull ==
    (call.stage = "fetch_apify" /\ call.done) =>
        /\ \A i \in 1..Len(call.output) :
              \/ call.output[i]["date"] = None
              \/ IsIsoDate(call.output[i]["date"])
        /\ (call.token /\ ~call.fails) =>
              /\ Len(call.output) = Len(Captioned)
              /\ \A i \in 1..Len(call.output) :
                    call.output[i]["date"] = ClaimedDate(Captioned[i])

(***************************************************************************)
(* SharingSpec: one stage call seen with the identity of the record        *)
(* objects.  The heap is a sequence of dicts, a dict's identity its        *)
(* position in it; the caller's list `passed` and the list the stage       *)
(* returns are sequences of identities.                                    *)
(***************************************************************************)
SharingCall(stage, heap, loaded, oracle) ==
    [stage |-> "sharing", fn |-> stage, heap |-> heap,
     passed |-> [i \in 1..Len(heap) |-> i], loaded |-> loaded,
     oracle |-> oracle, returned |-> <<>>, done |-> FALSE]

\* a stage, up to MaxLen records, whether the stage's model is loaded, and
\* what the model does with each text
SharingInit ==
    /\ IdlePipeline
    /\ \E len \in 0..MaxLen : \E heap \in [1..len -> StageRecords] :
          \/ call = SharingCall("clean", heap, TRUE, <<>>)
          \/ \E loaded \in BOOLEAN :
                \E oracle \in [1..len -> SentimentOutcomes] :
                    call = SharingCall("sentiment", heap, loaded, oracle)
          \/ \E loaded \in BOOLEAN :
                \E oracle \in [1..len -> KeywordOutcomes] :
                    call = SharingCall("keywords", heap, loaded, oracle)

\* clean_captions, cleaner.py 82-104: `post["cleaned_caption"] = ...` on each
\* dict of the list, and `return posts`
ShareClean ==
    /\ call.stage = "sharing" /\ call.fn = "clean" /\ ~call.done
    /\ call' = [call EXCEPT !.heap = clean_captions(@),
                            !.returned = call.passed,
                            !.done = TRUE]
    /\ UNCHANGED pipelineVars

\* analyze_sentiment, sentiment.py 209-280: every result is a new dict,
\* `{**post, ...}` or `{..., **post}`, in a new list; the dicts passed in are
\* not assigned to
ShareSentiment ==
    /\ call.stage = "sharing" /\ call.fn = "sentiment" /\ ~call.done
    /\ LET results == analyze_sentiment(call.heap, call.loaded,
                                        default_batch_size, call.oracle)
       IN  call' = [call EXCEPT
                      !.heap = @ \o results,
                      !.returned = [i \in 1..Len(results) |-> Len(call.heap) + i],
                      !.done = TRUE]
    /\ UNCHANGED pipelineVars

\* extract_keywords, keywords.py 39-77: `post["keywords"] = ...` on each dict
\* of the list, and `return posts`
ShareKeywords ==
    /\ call.stage = "sharing" /\ call.fn = "keywords" /\ ~call.done
    /\ call' = [call EXCEPT
                  !.heap = extract_keywords(@, call.loaded, call.oracle),
                  !.returned = call.passed,
                  !.done = TRUE]
    /\ UNCHANGED pipelineVars

SharingNext == ShareClean \/ ShareSentiment \/ ShareKeywords

SharingSpec == SharingInit /\ [][SharingNext]_vars

\* C23: each stage after collection mutates the records in place: the list
\* it returns holds the record objects it was passed, so the fields of the
\* returned records are there on the records of the caller's list.
C23_StagesMutateInPlace ==
    (call.stage = "sharing" /\ call.done) =>
        /\ call.returned = call.passed
        /\ \A i \in 1..Len(call.passed) :
              DOMAIN call.heap[call.returned[i]]
                  \subseteq DOMAIN call.heap[call.passed[i]]

(***************************************************************************)
(* ScraperSpec: SafeInstagramScraper.fetch_hashtag_posts attempt by        *)
(* attempt, called without a progress callback.  An attempt either runs    *)
(* its loop over the posts to the end, or is ended by an exception from    *)
(* the service (Hashtag.from_name, get_posts, or the iterator of the       *)
(* posts) after some of the posts have been processed.                     *)
(***************************************************************************)
\* the posts the service yields in one attempt
AttemptPosts == {Item(LongText, 1), Item(DigitsText, 2), Item(<<>>, 3)}

\* mutant: the records of the failed attempts stay in the results
AttemptRecordsKept(carried, items, max_count) ==
    carried \o ScraperLoop(items, 1, 0, max_count)

\* lines 63-64 and 70-101: `results = []` at the start of every attempt,
\* then the loop; carried is what the attempts before gathered
AttemptRecords(carried, items, max_count) ==
    ScraperLoop(items, 1, 0, max_count)

\* the sleep before the next attempt: line 109 for an InstaloaderException,
\* line 121 for any other exception
RetryDelay(error, attempt) ==
    IF error = "api" THEN (attempt + 1) * 60 ELSE 30

ScraperCall(max_retries, max_count) ==
    [stage |-> "scraper", max_retries |-> max_retries,
     max_count |-> max_count, attempt |-> 0, attempts |-> 0,
     waits |-> <<>>, carried |-> <<>>, items |-> <<>>, output |-> <<>>,
     outcome |-> "none", done |-> FALSE]

ScraperInit ==
    /\ IdlePipeline
    /\ \E max_retries \in 0..MaxRetries, max_count \in 1..MaxCount :
          call = ScraperCall(max_retries, max_count)

\* lines 56-104: the attempt runs to the end and its results are returned
AttemptReturns(items) ==
    /\ call.stage = "scraper" /\ ~call.done
    /\ call.attempt < call.max_retries
    /\ call' = [call EXCEPT
                  !.attempts = @ + 1,
                  !.items = items,
                  !.output = AttemptRecords(call.carried, items,
                                            call.max_count),
                  !.outcome = "returned",
                  !.done = TRUE]
    /\ UNCHANGED pipelineVars

\* lines 56-124: the service raises after n of the posts were processed; the
\* scraper sleeps and goes to the next attempt, or returns [] when this was
\* the last one
AttemptFails(error, items, n) ==
    /\ call.stage = "scraper" /\ ~call.done
    /\ call.attempt < call.max_retries
    /\ LET gathered == AttemptRecords(call.carried, SubSeq(items, 1, n),
                                      call.max_count)
       IN  IF call.attempt < call.max_retries - 1
           THEN call' = [call EXCEPT
                           !.attempts = @ + 1,
                           !.attempt = @ + 1,
                           !.items = items,
                           !.carried = gathered,
                           !.waits = Append(@, [error |-> error,
                                                delay |-> RetryDelay(error,
                                                            call.attempt)])]
           ELSE call' = [call EXCEPT
                           !.attempts = @ + 1,
                           !.items = items,
                           !.carried = gathered,
                           !.output = <<>>,
                           !.outcome = "exhausted",
                           !.done = TRUE]
    /\ UNCHANGED pipelineVars

\* line 126: range(self.max_retries) is empty
NoAttempt ==
    /\ call.stage = "scraper" /\ ~call.done
    /\ call.max_retries = 0
    /\ call' = [call EXCEPT !.outcome = "exhausted", !.done = TRUE]
    /\ UNCHANGED pipelineVars

ScraperNext ==
    \/ \E len \in 0..MaxLen : \E items \in [1..len -> AttemptPosts] :
          \/ AttemptReturns(items)
          \/ \E error \in {"api", "other"}, n \in 0..len :
                AttemptFails(error, items, n)
    \/ NoAttempt

ScraperSpec == ScraperInit /\ [][ScraperNext]_vars

\* the records a complete pass over the posts gives: the first max_count
\* posts that have a caption
FirstCaptioned(items, max_count) ==
    LET kept == SelectSeq(items, HasCaption)
    IN  [i \in 1..(IF Len(kept) < max_count THEN Len(kept) ELSE max_count) |->
            kept[i]["caption"]]

\* C24: fetch_hashtag_posts makes at most max_retries attempts; it returns
\* the records of the first attempt that completes, and only those; it
\* waits before each further attempt, for a scraper API error 60 seconds
\* times the number of the failed attempt; after max_retries failed
\* attempts it returns the empty list; it does not raise.
C24_RetriesAreBounded ==
    call.stage = "scraper" =>
        /\ call.attempts <= call.max_retries
        /\ call.outcome \in {"none", "returned", "exhausted"}
        /\ Len(call.waits) = IF call.done /\ call.attempts > 0
                              THEN call.attempts - 1
                              ELSE call.attempts
        /\ \A k \in 1..Len(call.waits) :
              /\ call.waits[k].delay > 0
              /\ call.waits[k].error = "api" => call.waits[k].delay = 60 * k
        /\ call.outcome = "returned" =>
              /\ Len(call.output) = Len(FirstCaptioned(call.items,
                                                       call.max_count))
              /\ \A i \in 1..Len(call.output) :
                    call.output[i]["caption"]
                        = FirstCaptioned(call.items, call.max_count)[i]
        /\ call.outcome = "exhausted" =>
              /\ call.attempts = call.max_retries
              /\ call.output = <<>>
        /\ call.attempts = call.max_retries => call.done \/ call.attempts = 0

\* two API errors, the first after a record was gathered, then an attempt
\* that completes
C24_Witness ==
    /\ call.stage = "scraper" /\ call.outcome = "returned"
    /\ call.attempts = 3
    /\ call.waits = << [error |-> "api", delay |-> 60],
                       [error |-> "api", delay |-> 120] >>
    /\ call.carried # <<>>
    /\ call.output # <<>>

\* C25: after any sequence of runs in one session (completed, failed at
\* collection, or ended by a failure while the index was being built),
\* whenever the session holds both an analysis result and a retrieval index,
\* the index was built from exactly that result, so the chat is never
\* available with the index of an earlier run's records.
C25_IndexBelongsToStoredResult ==
    (session.analyzed_posts.set /\ session.vectorstore.state = "index") =>
        session.vectorstore.docs = IndexDocs(session.analyzed_posts.posts)

====
